---- MODULE Spec2Model ----
(***************************************************************************)
(* A model of iac-gen-go: the IaCAgent outer cycle (core/agent.ts), the    *)
(* local build pipeline of CodeExecutor (core/executor.ts), the remote     *)
(* pipeline and SSH session of MCPServer (ssh/mcp-server.ts), and the      *)
(* validation of IaCGenerator (core/generator.ts), and the generate        *)
(* command of the CLI (index.ts).                                          *)
(*                                                                         *)
(* Text is a sequence of tokens: concatenation is \o, the empty string is  *)
(* << >>, and s.includes(p) holds when p is one of the tokens of s.        *)
(***************************************************************************)
EXTENDS Integers, Sequences, FiniteSets, TLC

VARIABLES
    executionMode,  \* AgentConfig.executionMode: "local" | "remote"
    hasMcpConfig,   \* AgentConfig.mcpServerConfig is defined
    maxCycles,      \* AgentConfig.maxCycles
    maxAttempts,    \* the maxAttempts argument of executeBuildCycle
    envFailures,    \* the failing command outcomes the environment of this run can produce
    envFileSets,    \* the file sets the generation service of this run can return
    envOutputs,     \* the output mappings the remote target of this run can hold
    entry,          \* the method this run calls: "executeAgentCycle" | "executeBuildCycle"
    pc,             \* position of executeAgentCycle (or of the pipeline it awaits)
    cycle,          \* the loop variable of executeAgentCycle
    currentPrompt,  \* executeAgentCycle's currentPrompt: a sequence of blocks
    genRequest,     \* the request last passed to generateCDKTFGoCode
    results,        \* executeAgentCycle's results: CycleResult[]
    connected,      \* MCPServer.connected
    files,          \* generationResult.files of the current cycle
    written,        \* number of files of the current cycle delivered to the target
    phase,          \* the phase the pipeline is at
    attempt,        \* executeBuildCycle's attempt
    pipeResults,    \* the pipeline's results: phase -> outcome (only phases that ran)
    stamp,          \* phase -> the pass in which pipeResults[phase] was last assigned
    fixLeft,        \* the remedy commands still to run in attempt*Fix
    fixCount,       \* remedy commands that succeeded for the current phase in this pass
    buildResult,    \* cycleResult.buildResult of the current (or last) cycle
    deploymentOutputs, \* the deploymentOutputs of the current (or last) cycle
    lastCmd,        \* the pipeline command that ended last, with its outcome
    fixResult,      \* the value the last attempt*Fix call returned
    download,       \* how the last downloadDeploymentOutputs call of this cycle went
    hasApiKey,      \* config.anthropicApiKey is set
    exitCode,       \* the status the generate command passed to process.exit
    call,           \* a function called on its own, with its arguments
    ret             \* the value that call returned

cfgVars   == <<executionMode, hasMcpConfig, maxCycles, maxAttempts, envFailures, envFileSets,
               envOutputs, entry>>
agentVars == <<pc, cycle, currentPrompt, genRequest, results, connected>>
cycleVars == <<files, written, buildResult, deploymentOutputs>>
pipeVars  == <<phase, attempt, pipeResults, stamp, fixLeft, fixCount>>
histVars  == <<lastCmd, fixResult, download>>
cliVars   == <<hasApiKey, exitCode>>
callVars  == <<call, ret>>
vars      == <<cfgVars, agentVars, cycleVars, pipeVars, histVars, cliVars, callVars>>

-----------------------------------------------------------------------------
(* Bounds of the model *)

\* the largest maxCycles a run is configured with
MaxCycles == 2

\* the largest maxAttempts executeBuildCycle is called with on its own
MaxAttempts == 3

(* Program constants *)

\* executeBuildCycle(maxAttempts: number = 3); the agent calls it without argument
DefaultMaxAttempts == 3

\* .option('-c, --cycles <cycles>', 'Maximum cycles', '3'), and loadConfig's maxCycles: 3
DefaultMaxCycles == 3

\* the close code of a child / channel that ended without an exit status (null)
NullCode == 0 - 1

-----------------------------------------------------------------------------
(* JavaScript values *)

\* the value undefined, which a template literal prints as "undefined"
Undefined == <<"undefined">>

\* x is truthy as a string-or-undefined operand of ||
Truthy(x) == x # << >> /\ x # Undefined

\* a || b
OrElse(a, b) == IF Truthy(a) THEN a ELSE b

\* s.includes(p)
includes(s, p) == \E i \in DOMAIN s : s[i] = p

\* an optional field read: r.f, undefined when r has no property f
Prop(r, f) == IF f \in DOMAIN r THEN r[f] ELSE Undefined

Phases == <<"build", "synth", "lint", "deploy">>
PhaseSet == {"build", "synth", "lint", "deploy"}
PhaseIndex(p) == CHOOSE i \in DOMAIN Phases : Phases[i] = p
NextPhase(p) == Phases[PhaseIndex(p) + 1]

-----------------------------------------------------------------------------
(* Command outcomes given by the environment *)

\* a child process / remote command that ran to its end
Closed(code, out, err) == [kind |-> "close", code |-> code, stdout |-> out, stderr |-> err]

\* spawn's 'error' event (local), with what stdout had so far
SpawnError(out, msg) == [kind |-> "error", code |-> 1, stdout |-> out, stderr |-> msg]

\* a transport failure of the SSH session (remote): execCommand rejects
Transport(msg) == [kind |-> "throw", code |-> 1, stdout |-> << >>, stderr |-> msg]

RawOk == Closed(0, <<"ok">>, << >>)

ExitMessage(code) ==
    IF code = NullCode THEN <<"Command exited with code null">>
    ELSE IF code = 1 THEN <<"Command exited with code 1">>
    ELSE <<"Command exited with code n">>

\* CodeExecutor.executeCommand: the ExecutionResult resolved for a raw outcome
executeCommand(raw) ==
    IF raw.kind = "close"
    THEN LET success == raw.code = 0 IN
         [success  |-> success,
          output   |-> raw.stdout \o raw.stderr,
          error    |-> IF success THEN Undefined ELSE OrElse(raw.stderr, ExitMessage(raw.code)),
          exitCode |-> IF raw.code = NullCode THEN 0 ELSE raw.code]
    ELSE [success |-> FALSE, output |-> raw.stdout, error |-> raw.stderr, exitCode |-> 1]

\* MCPServer.executeRemoteCommand: the value returned for a raw outcome that did not throw
executeRemoteCommand(raw) ==
    [stdout |-> raw.stdout,
     stderr |-> raw.stderr,
     code   |-> IF raw.code = NullCode THEN 0 ELSE raw.code]

\* whether the remote pipeline goes on after a phase: results.<phase>.code !== 0 returns
RemotePhaseOk(r) == r.code = 0

-----------------------------------------------------------------------------
(* Error classifier: CodeExecutor.attempt*Fix *)

\* const output = result.output || result.error || ''
FixInput(r) == OrElse(Prop(r, "output"), OrElse(Prop(r, "error"), << >>))

NoFixAvailable == [success |-> FALSE, output |-> <<"No automatic fix available">>, exitCode |-> 1]
CredentialsNeeded == [success |-> FALSE, output |-> <<"AWS credentials need to be configured">>, exitCode |-> 1]

\* the commands attemptBuildFix runs, in order (each only if the one before succeeded)
attemptBuildFix(r) ==
    LET output == FixInput(r) IN
    IF includes(output, "Cannot find module") \/ includes(output, "Module not found")
    THEN <<"npm install">>
    ELSE IF includes(output, "go.mod") \/ includes(output, "go.sum")
    THEN <<"go mod tidy", "go mod download">>
    ELSE << >>

attemptSynthFix(r) ==
    LET output == FixInput(r) IN
    IF includes(output, "cdktf get") \/ includes(output, ".gen")
    THEN <<"npx cdktf get">>
    ELSE << >>

\* variants: a lint classifier that always formats, a deploy classifier without teardown
attemptLintFix_Always(r) == <<"gofmt -w .">>
attemptDeployFix_NoTeardown(r) == << >>

\* a variant that looks for the conflict patterns first
attemptDeployFix_ConflictFirst(r) ==
    LET output == FixInput(r) IN
    IF includes(output, "already exists") \/ includes(output, "conflict")
    THEN <<"npm run destroy">>
    ELSE << >>

attemptLintFix(r) ==
    LET output == FixInput(r) IN
    IF includes(output, "gofmt") \/ includes(output, "format")
    THEN <<"gofmt -w .">>
    ELSE << >>

attemptDeployFix(r) ==
    LET output == FixInput(r) IN
    IF includes(output, "credentials") \/ includes(output, "access denied")
    THEN << >>
    ELSE IF includes(output, "already exists") \/ includes(output, "conflict")
    THEN <<"npm run destroy">>
    ELSE << >>

\* the result attempt*Fix returns when it runs no command
StaticFixResult(p, r) ==
    LET output == FixInput(r) IN
    IF p = "deploy" /\ (includes(output, "credentials") \/ includes(output, "access denied"))
    THEN CredentialsNeeded
    ELSE NoFixAvailable

\* the classifier executeBuildCycle consults for phase p
attemptFix(p, r) ==
    CASE p = "build"  -> attemptBuildFix(r)
      [] p = "synth"  -> attemptSynthFix(r)
      [] p = "lint"   -> attemptLintFix(r)
      [] p = "deploy" -> attemptDeployFix(r)

-----------------------------------------------------------------------------
(* IaCGenerator.validateGeneratedCode *)

\* the keys a generated file set may have, in the order they are iterated
AllPaths == <<"lib/tap_stack.go", "bin/tap.go", "cdk.json", "lib/util.go">>

requiredFiles == <<"lib/tap_stack.go", "bin/tap.go", "cdk.json">>

\* filePath.endsWith('.go')
endsWithGo(path) == path \in {"lib/tap_stack.go", "bin/tap.go", "lib/util.go"}

\* file contents: the empty string, Go source with and without a package clause,
\* JSON text, text that is not JSON, and a value that is not a string
EmptyContent == << >>
GoSource     == <<"package ", "main">>
NoPackage    == <<"func main() {}">>
JsonText     == <<"{\"app\":\"go run bin/tap.go\"}">>
BrokenJson   == <<"{\"app\":">>
NotAString   == <<"#number">>

\* a variant that only looks for the key
Falsy_KeyAbsent(fs, file) == file \notin DOMAIN fs

\* !files[file]: the key is absent or its content is the empty string
Falsy(fs, file) == file \notin DOMAIN fs \/ fs[file] = EmptyContent

\* JSON.parse(text) returns (a number is converted to text and parses)
JsonParses(text) == text = JsonText \/ text = NotAString

\* the subsequence of AllPaths that are keys of fs: Object.entries(files)
Entries(fs) == SelectSeq(AllPaths, LAMBDA p : p \in DOMAIN fs)

\* the errors of the three validation steps, in order
MissingErrors(fs) ==
    [i \in 1..Len(SelectSeq(requiredFiles, LAMBDA f : Falsy(fs, f))) |->
        <<"Missing required file:", SelectSeq(requiredFiles, LAMBDA f : Falsy(fs, f))[i]>>]

PackageErrors(fs) ==
    [i \in 1..Len(SelectSeq(Entries(fs), LAMBDA p : endsWithGo(p) /\ ~includes(fs[p], "package "))) |->
        <<SelectSeq(Entries(fs), LAMBDA p : endsWithGo(p) /\ ~includes(fs[p], "package "))[i],
          ": Missing package declaration">>]

JsonErrors(fs) ==
    IF ~Falsy(fs, "cdk.json") /\ ~JsonParses(fs["cdk.json"])
    THEN << <<"cdk.json: Invalid JSON format">> >>
    ELSE << >>

\* content.includes is called on a value that is not a string: a TypeError
ValidationThrows(fs) == \E p \in DOMAIN fs : endsWithGo(p) /\ fs[p] = NotAString

validateGeneratedCode(fs) ==
    LET errors == MissingErrors(fs) \o PackageErrors(fs) \o JsonErrors(fs) IN
    [valid  |-> errors = << >>,
     errors |-> errors,
     threw  |-> ValidationThrows(fs)]

\* errors.join(', ')
RECURSIVE Join(_)
Join(errs) == IF errs = << >> THEN << >>
              ELSE IF Len(errs) = 1 THEN errs[1]
              ELSE errs[1] \o <<", ">> \o Join(Tail(errs))

-----------------------------------------------------------------------------
(* IaCAgent: prompts and the expectation check *)

\* request.prompt
InitialPrompt == << [kind |-> "request", text |-> <<"create a storage bucket">>] >>

\* request.context, and the notice sent instead of it from cycle 2 on
RequestContext == [kind |-> "request", cycle |-> 0]
\* a variant that keeps sending the caller's context
CycleNotice_Caller(c) == [kind |-> "request", cycle |-> 0]
CycleNotice(c) == [kind |-> "notice", cycle |-> c]

\* buildResult?.results?.<p> && !buildResult.results.<p>.success
ListedAsFailed(br, p) ==
    /\ "results" \in DOMAIN br
    /\ p \in DOMAIN br.results
    /\ ("success" \in DOMAIN br.results[p] => ~br.results[p].success)

\* `<Phase> error: ${r.error || r.output}`
FixEntry(br, p) ==
    [phase |-> p, text |-> OrElse(Prop(br.results[p], "error"), Prop(br.results[p], "output"))]

\* fixContext: one entry per phase listed as failed, in phase order
FixContext(br) ==
    LET failed == SelectSeq(Phases, LAMBDA p : ListedAsFailed(br, p)) IN
    [i \in 1..Len(failed) |-> FixEntry(br, failed[i])]

generateFixPrompt(originalPrompt, br) ==
    originalPrompt \o << [kind |-> "fix", entries |-> FixContext(br)] >>

\* a variant that drops the feedback
generateImprovementPrompt_Unchanged(originalPrompt, outputs) == originalPrompt

generateImprovementPrompt(originalPrompt, outputs) ==
    originalPrompt \o << [kind |-> "improve", outputs |-> outputs] >>

generateErrorRecoveryPrompt(originalPrompt, message) ==
    originalPrompt \o << [kind |-> "recover", error |-> <<"Error: ">> \o message] >>

\* the keys downloadDeploymentOutputs probes
OutputFiles == { <<"cfn", "-", "output", "s/">>, <<"cdk-", "stack", "s.json">>, <<"terraform.tfstate">> }

\* outputs are a mapping key -> value; {} is the mapping with no key
NoOutputs == [k \in {} |-> << >>]

\* a variant that takes any output for a result
checkDeploymentExpectations_AnyKey(originalPrompt, outputs) == DOMAIN outputs # {}

\* a variant that is never satisfied
checkDeploymentExpectations_Never(originalPrompt, outputs) == FALSE

checkDeploymentExpectations(originalPrompt, outputs) ==
    IF DOMAIN outputs = {}
    THEN FALSE
    ELSE \E key \in DOMAIN outputs :
            includes(key, "output") \/ includes(key, "stack") \/ includes(key, "cfn")

-----------------------------------------------------------------------------
(* State shared by the actions *)

NoFiles == [p \in {} |-> << >>]
NoResults == [p \in {} |-> << >>]
NoStamp == [p \in PhaseSet |-> 0]

\* cycleResult.generationResult before it is assigned
NotGenerated == [unset |-> TRUE]

\* cycleResult.buildResult before it is assigned, and when it is assigned undefined
Unassigned == [unset |-> TRUE]
UndefinedBuild == [undefined |-> TRUE]

\* no pipeline command has ended yet; attempt*Fix has not been called yet
NoCommand == [role |-> "none"]
NoFixResult == [unset |-> TRUE]

\* downloadDeploymentOutputs has not been called in this cycle
NoDownload == [called |-> FALSE, threw |-> FALSE]

\* process.exit has not been called; no function is called on its own
NoExit == 0 - 1
NoCall == [fn |-> "none"]
NoReturn == [unset |-> TRUE]

\* 'npm run build', 'npm run synth', 'npm run lint', 'npm run deploy'
PhaseCommand(p) ==
    CASE p = "build" -> "npm run build" [] p = "synth" -> "npm run synth"
      [] p = "lint" -> "npm run lint" [] p = "deploy" -> "npm run deploy"

\* a pipeline command that ended: role is "run" (the phase command), "fix" (a remedy
\* command) or "rerun" (the phase command after a remedy); ok is what the pipeline made of it
Command(role, p, cmd, pass, raw, ok) ==
    [role |-> role, phase |-> p, cmd |-> cmd, pass |-> pass, raw |-> raw, ok |-> ok]

\* f with f[k] = v
Put(f, k, v) == [x \in DOMAIN f \cup {k} |-> IF x = k THEN v ELSE f[x]]

InPipeline == pc \in {"run", "fix", "rerun", "remote"}

\* the commands the environment can answer with
LocalOutcomes == {RawOk} \cup {r \in envFailures : r.kind # "throw"}
RemoteOutcomes == {RawOk} \cup {r \in envFailures : r.kind # "error"}

\* 'Build', 'Synth', 'Lint', 'Deploy'
PhaseTitle(p) ==
    CASE p = "build" -> "Build" [] p = "synth" -> "Synth" [] p = "lint" -> "Lint" [] p = "deploy" -> "Deploy"

\* what a CycleResult of the model keeps of buildResult
BuildSummary(br) ==
    IF br = Unassigned THEN "none"
    ELSE IF br = UndefinedBuild THEN "undefined"
    ELSE IF br.success THEN "ok" ELSE "failed"

\* the last recorded outcome of deploy in br: "none", "ok" or "failed"
DeployOutcome(br) ==
    IF "results" \notin DOMAIN br \/ "deploy" \notin DOMAIN br.results THEN "none"
    ELSE IF "success" \in DOMAIN br.results["deploy"]
         THEN (IF br.results["deploy"].success THEN "ok" ELSE "failed")
         ELSE (IF br.results["deploy"].code = 0 THEN "ok" ELSE "failed")

\* the CycleResult pushed for the current cycle; wrote is the number of files delivered in it
CycleResult(success, error, gen, br, outputs, wrote) ==
    [cycle   |-> cycle,
     success |-> success,
     error   |-> error,
     generated |-> gen # NotGenerated,
     files   |-> IF gen = NotGenerated THEN NoFiles ELSE gen,
     build   |-> BuildSummary(br),
     deploy  |-> DeployOutcome(br),
     outputs |-> outputs,
     wrote   |-> wrote]

\* the pipeline's own state once it has returned; attempt is kept as the number of passes
PipeReset ==
    /\ phase' = "build"
    /\ pipeResults' = NoResults
    /\ stamp' = NoStamp
    /\ fixLeft' = << >>
    /\ fixCount' = 0

\* a variant that starts the next iteration before the record is pushed
EndCycle_RecordsLate(rec, prompt, leave) ==
    /\ results' = IF leave \/ cycle >= maxCycles THEN Append(results, rec) ELSE results
    /\ currentPrompt' = prompt
    /\ IF leave \/ cycle >= maxCycles
       THEN pc' = "cleanup" /\ cycle' = cycle
       ELSE pc' = "generate" /\ cycle' = cycle + 1
    /\ files' = NoFiles
    /\ PipeReset
    /\ UNCHANGED <<cfgVars, genRequest, connected>>

\* the end of one iteration of the for loop: push, then continue or leave the loop
EndCycle(rec, prompt, leave) ==
    /\ results' = Append(results, rec)
    /\ currentPrompt' = prompt
    /\ IF leave \/ cycle >= maxCycles
       THEN pc' = "cleanup" /\ cycle' = cycle
       ELSE pc' = "generate" /\ cycle' = cycle + 1
    /\ files' = NoFiles
    /\ PipeReset
    /\ UNCHANGED <<cfgVars, genRequest, connected>>

\* the catch block of the cycle: record the message, recovery prompt if cycles remain
CatchCycle(message, gen, wrote) ==
    /\ written' = wrote
    /\ EndCycle(CycleResult(FALSE, message, gen, buildResult, NoOutputs, wrote),
                IF cycle < maxCycles
                THEN generateErrorRecoveryPrompt(currentPrompt, message)
                ELSE currentPrompt,
                FALSE)
    /\ UNCHANGED <<buildResult, deploymentOutputs, attempt>>

\* a variant that leaves the loop after any successful cycle
LeavesLoop_OnSuccess(expectationsMet) == TRUE

\* a variant without the break
LeavesLoop_Never(expectationsMet) == FALSE

\* lines 138-140: `if (expectationsMet) break`
LeavesLoop(expectationsMet) == expectationsMet

\* lines 130-144: the cycle is marked successful, then the expectation check decides
Succeed(br, outputs) ==
    LET expectationsMet == checkDeploymentExpectations(InitialPrompt, outputs) IN
    /\ buildResult' = br
    /\ deploymentOutputs' = outputs
    /\ UNCHANGED <<attempt, written>>
    /\ EndCycle(CycleResult(TRUE, << >>, files, br, outputs, written),
                IF ~expectationsMet /\ cycle < maxCycles
                THEN generateImprovementPrompt(currentPrompt, outputs)
                ELSE currentPrompt,
                LeavesLoop(expectationsMet))

\* `Build cycle failed: ${buildResult?.finalError || buildResult?.error || 'Unknown error'}`
BuildFailedMessage(br) ==
    <<"Build cycle failed: ">> \o
    OrElse(Prop(br, "finalError"), OrElse(Prop(br, "error"), <<"Unknown error">>))

\* lines 104-118: the pipeline returned br to the agent
\* lines 120-126: in local mode the outputs are {}, in remote mode they are downloaded
AfterBuild(br, st) ==
    IF entry = "executeBuildCycle"
    THEN /\ pc' = "returned"
         /\ buildResult' = br
         /\ pipeResults' = br.results
         /\ stamp' = st
         /\ fixLeft' = << >>
         /\ UNCHANGED <<cfgVars, cycle, currentPrompt, genRequest, results, connected,
                        files, written, deploymentOutputs, attempt, phase, fixCount>>
    ELSE IF br = UndefinedBuild \/ ~br.success
    THEN /\ buildResult' = br
         /\ UNCHANGED <<deploymentOutputs, attempt, written>>
         /\ EndCycle(CycleResult(FALSE,
                                 IF cycle < maxCycles THEN << >> ELSE BuildFailedMessage(br),
                                 files, br, NoOutputs, written),
                     IF cycle < maxCycles
                     THEN generateFixPrompt(currentPrompt, br)
                     ELSE currentPrompt,
                     FALSE)
    ELSE IF executionMode = "remote" /\ hasMcpConfig
    THEN /\ pc' = "outputs"
         /\ buildResult' = br
         /\ PipeReset
         /\ UNCHANGED <<cfgVars, cycle, currentPrompt, genRequest, results, connected,
                        files, written, deploymentOutputs, attempt>>
    ELSE Succeed(br, NoOutputs)

-----------------------------------------------------------------------------
(* Inputs of a run *)

\* failing outcomes: a matched pattern on stderr after some stdout, and a child that
\* ended without exit status and without output
GoModFailure == Closed(1, <<"log">>, <<"go.mod">>)
Signalled    == Closed(NullCode, << >>, << >>)
AgentFailures == {GoModFailure, Signalled, Transport(<<"Connection lost">>)}

\* the failing outcomes of a direct call of executeBuildCycle: every classifier pattern,
\* on stdout or on stderr, an unmatched text, a missing exit status and a spawn error
PatternTexts ==
    { <<"Cannot find module">>, <<"go.mod">>, <<".gen">>, <<"gofmt">>,
      <<"credentials">>, <<"already exists">>, <<"credentials", "already exists">>,
      <<"access denied", "conflict">>, <<"boom">> }
PipelineFailures ==
    {Closed(1, <<"log">>, t) : t \in PatternTexts}
    \cup {Closed(1, t, << >>) : t \in {<<"go.mod">>, <<"already exists">>}}
    \cup {Signalled, SpawnError(<<"log">>, <<"spawn ENOENT">>)}

ValidFiles ==
    [p \in {"lib/tap_stack.go", "bin/tap.go", "cdk.json"} |->
        IF p = "cdk.json" THEN JsonText ELSE GoSource]
NoEntryPoint == [p \in {"lib/tap_stack.go", "cdk.json"} |-> ValidFiles[p]]
BadConfig == [ValidFiles EXCEPT !["cdk.json"] = BrokenJson]
AgentFileSets == {ValidFiles, NoEntryPoint, BadConfig}

\* A mapping with the given keys
OutputsOf(keys) == [k \in keys |-> <<"content">>]
AgentOutputs == {OutputsOf({}), OutputsOf({<<"terraform.tfstate">>}),
                 OutputsOf({<<"cfn", "-", "output", "s/">>})}

InitCommon ==
    /\ currentPrompt = InitialPrompt
    /\ genRequest = [prompt |-> << >>, context |-> RequestContext]
    /\ results = << >>
    /\ connected = FALSE
    /\ files = NoFiles
    /\ written = 0
    /\ pipeResults = NoResults
    /\ stamp = NoStamp
    /\ fixLeft = << >>
    /\ fixCount = 0
    /\ buildResult = Unassigned
    /\ deploymentOutputs = NoOutputs
    /\ phase = "build"
    /\ lastCmd = NoCommand
    /\ fixResult = NoFixResult
    /\ download = NoDownload
    /\ exitCode = NoExit
    /\ ret = NoReturn

\* the generate command is invoked with a configuration and a prompt
Init ==
    /\ entry = "executeAgentCycle"
    /\ executionMode \in {"local", "remote"}
    /\ hasMcpConfig \in BOOLEAN
    /\ maxCycles \in 1..MaxCycles
    /\ maxAttempts = DefaultMaxAttempts
    /\ envFailures = AgentFailures
    /\ envFileSets = AgentFileSets
    /\ envOutputs = AgentOutputs
    /\ hasApiKey \in BOOLEAN
    /\ call = NoCall
    /\ pc = "cli"
    /\ cycle = 0
    /\ attempt = 0
    /\ InitCommon

\* the generate command with its default number of cycles; the environment fails by a
\* matched build error or a transport failure, and generation may miss the entry point
InitDefault ==
    /\ entry = "executeAgentCycle"
    /\ executionMode \in {"local", "remote"}
    /\ hasMcpConfig \in BOOLEAN
    /\ maxCycles = DefaultMaxCycles
    /\ maxAttempts = DefaultMaxAttempts
    /\ envFailures = {GoModFailure, Transport(<<"Connection lost">>)}
    /\ envFileSets = {ValidFiles, NoEntryPoint}
    /\ envOutputs = {OutputsOf({<<"cfn", "-", "output", "s/">>})}
    /\ hasApiKey \in BOOLEAN
    /\ call = NoCall
    /\ pc = "cli"
    /\ cycle = 0
    /\ attempt = 0
    /\ InitCommon

\* new CodeExecutor(dir), at the first command of executeBuildCycle(maxAttempts)
InitPipeline ==
    /\ entry = "executeBuildCycle"
    /\ executionMode = "local"
    /\ hasMcpConfig = FALSE
    /\ maxCycles = 1
    /\ maxAttempts \in 1..MaxAttempts
    /\ envFailures = PipelineFailures
    /\ envFileSets = {}
    /\ envOutputs = {}
    /\ hasApiKey = TRUE
    /\ call = NoCall
    /\ pc = "run"
    /\ cycle = 0
    /\ attempt = 1
    /\ InitCommon

-----------------------------------------------------------------------------
(* The generate command of the CLI *)

\* lines 87-151: without an API key the command exits with 1 before an agent exists;
\* otherwise it builds the agent and calls executeAgentCycle
GenerateCommand ==
    /\ pc = "cli"
    /\ IF hasApiKey
       THEN pc' = "begin" /\ exitCode' = exitCode
       ELSE pc' = "exited" /\ exitCode' = 1
    /\ UNCHANGED <<cfgVars, cycle, currentPrompt, genRequest, results, connected,
                   cycleVars, pipeVars, histVars, hasApiKey, callVars>>

\* a variant that wants every record successful
ExitStatus_AllSucceeded(recs) ==
    IF \A i \in DOMAIN recs : recs[i].success THEN 0 ELSE 1

\* lines 162-178: successCount > 0 ? process.exit(0) : process.exit(1)
ExitStatus(recs) ==
    IF Len(SelectSeq(recs, LAMBDA r : r.success)) > 0 THEN 0 ELSE 1

\* lines 155-183: exit(0) when a returned record has success, exit(1) otherwise and
\* in the catch of an exception of executeAgentCycle
Exit ==
    /\ pc \in {"done", "thrown"}
    /\ pc' = "exited"
    /\ exitCode' = IF pc = "done" THEN ExitStatus(results) ELSE 1
    /\ UNCHANGED <<cfgVars, cycle, currentPrompt, genRequest, results, connected,
                   cycleVars, pipeVars, histVars, hasApiKey, callVars>>

-----------------------------------------------------------------------------
(* IaCAgent.executeAgentCycle *)

\* a variant that starts the cycles without opening the session
Begin_SkipsConnect ==
    /\ pc = "begin"
    /\ pc' = "generate" /\ cycle' = 1
    /\ UNCHANGED <<cfgVars, currentPrompt, genRequest, results, connected, cycleVars, pipeVars>>
    /\ UNCHANGED <<histVars, cliVars, callVars>>

\* lines 48-53: remote mode with a server opens the session first
Begin ==
    /\ pc = "begin"
    /\ IF executionMode = "remote" /\ hasMcpConfig
       THEN pc' = "connect" /\ cycle' = cycle
       ELSE pc' = "generate" /\ cycle' = 1
    /\ UNCHANGED <<cfgVars, currentPrompt, genRequest, results, connected, cycleVars, pipeVars>>
    /\ UNCHANGED <<histVars, cliVars, callVars>>

\* MCPServer.connect: sets connected, or rethrows out of executeAgentCycle
Connect ==
    /\ pc = "connect"
    /\ \E ok \in BOOLEAN :
          IF ok THEN connected' = TRUE /\ pc' = "setup"
                ELSE connected' = connected /\ pc' = "thrown"
    /\ UNCHANGED <<cfgVars, cycle, currentPrompt, genRequest, results, cycleVars, pipeVars>>
    /\ UNCHANGED <<histVars, cliVars, callVars>>

\* MCPServer.setupRemoteEnvironment: its commands end, or one throws out of executeAgentCycle
Setup ==
    /\ pc = "setup"
    /\ \E ok \in BOOLEAN :
          IF ok THEN pc' = "generate" /\ cycle' = 1
                ELSE pc' = "thrown" /\ cycle' = cycle
    /\ UNCHANGED <<cfgVars, currentPrompt, genRequest, results, connected, cycleVars, pipeVars>>
    /\ UNCHANGED <<histVars, cliVars, callVars>>

\* lines 58-69: a new cycleResult, and the request sent to the generation service
Generate ==
    /\ pc = "generate"
    /\ pc' = "generating"
    /\ genRequest' = [prompt  |-> currentPrompt,
                      context |-> IF cycle > 1 THEN CycleNotice(cycle) ELSE RequestContext]
    /\ buildResult' = Unassigned
    /\ deploymentOutputs' = NoOutputs
    /\ written' = 0
    /\ attempt' = 0
    /\ lastCmd' = NoCommand
    /\ fixResult' = NoFixResult
    /\ download' = NoDownload
    /\ UNCHANGED <<cfgVars, cycle, currentPrompt, results, connected, files,
                   phase, pipeResults, stamp, fixLeft, fixCount>>
    /\ UNCHANGED <<cliVars, callVars>>

\* a variant that ignores the validation
ProceedsToDelivery_Always(validation) == TRUE

\* line 81: the cycle goes on to delivery only with a valid file set
ProceedsToDelivery(validation) == validation.valid

\* a variant that leaves the loop on a generation failure
GenerationFailure_Aborts ==
    /\ EndCycle(CycleResult(FALSE, <<"Code generation failed: ", "service error">>,
                            NotGenerated, Unassigned, NoOutputs, 0),
                currentPrompt, TRUE)
    /\ UNCHANGED <<written, buildResult, deploymentOutputs, attempt>>

\* lines 71-75: the service failed; the cycle is recorded and the loop continues
GenerationFailure ==
    /\ EndCycle(CycleResult(FALSE, <<"Code generation failed: ", "service error">>,
                            NotGenerated, Unassigned, NoOutputs, 0),
                currentPrompt, FALSE)
    /\ UNCHANGED <<written, buildResult, deploymentOutputs, attempt>>

\* lines 71-85: the service answered; a failure or an invalid file set ends the cycle
Generated ==
    /\ pc = "generating"
    /\ UNCHANGED <<histVars, cliVars, callVars>>
    /\ \/ GenerationFailure
       \/ \E fs \in envFileSets :
             LET validation == validateGeneratedCode(fs) IN
             IF validation.threw
             THEN /\ CatchCycle(<<"content.includes is not a function">>, fs, 0)
             ELSE IF ~ProceedsToDelivery(validation)
             THEN /\ EndCycle(CycleResult(FALSE,
                                  <<"Generated code validation failed: ">> \o Join(validation.errors),
                                  fs, Unassigned, NoOutputs, 0),
                              currentPrompt, FALSE)
                  /\ UNCHANGED <<written, buildResult, deploymentOutputs, attempt>>
             ELSE /\ pc' = "deliver"
                  /\ files' = fs
                  /\ UNCHANGED <<cfgVars, cycle, currentPrompt, genRequest, results, connected,
                                 written, buildResult, deploymentOutputs, pipeVars>>

\* the first command of the pipeline
StartPipeline ==
    /\ pc' = IF executionMode = "local" THEN "run" ELSE "remote"
    /\ phase' = "build"
    /\ attempt' = 1
    /\ pipeResults' = NoResults
    /\ stamp' = NoStamp
    /\ fixLeft' = << >>
    /\ fixCount' = 0

\* a variant that goes on whatever was written
DeliveryComplete_Partial(k, fs) == TRUE

\* the awaited write / upload loop returns only after the last file of fs
DeliveryComplete(k, fs) == k = Len(Entries(fs))

\* lines 87-92: writeGeneratedFiles / uploadGeneratedCode write the files one after
\* the other and throw at the first that fails; k files are written
Deliver ==
    /\ pc = "deliver"
    /\ UNCHANGED <<histVars, cliVars, callVars>>
    /\ executionMode = "local" \/ hasMcpConfig
    /\ \E k \in 0..Len(Entries(files)) :
          IF DeliveryComplete(k, files)
          THEN /\ written' = k
               /\ StartPipeline
               /\ UNCHANGED <<cfgVars, cycle, currentPrompt, genRequest, results, connected,
                              files, buildResult, deploymentOutputs>>
          ELSE CatchCycle(<<"write failed">>, files, k)

\* a variant in which the cycle without a target goes through
DeliverNowhere_Succeeds ==
    /\ pc = "deliver"
    /\ UNCHANGED <<histVars, cliVars, callVars>>
    /\ executionMode = "remote" /\ ~hasMcpConfig
    /\ AfterBuild([success |-> TRUE, results |-> NoResults], stamp)

\* lines 88-102 in remote mode without a server: no branch is taken, buildResult is undefined
DeliverNowhere ==
    /\ pc = "deliver"
    /\ UNCHANGED <<histVars, cliVars, callVars>>
    /\ executionMode = "remote" /\ ~hasMcpConfig
    /\ AfterBuild(UndefinedBuild, stamp)

-----------------------------------------------------------------------------
(* CodeExecutor.executeBuildCycle *)

\* a phase succeeded: the next phase, or `return { success: true, results }` after deploy
Advance(res, st) ==
    IF phase = "deploy"
    THEN AfterBuild([success |-> TRUE, results |-> res], st)
    ELSE /\ pc' = "run"
         /\ phase' = NextPhase(phase)
         /\ pipeResults' = res
         /\ stamp' = st
         /\ fixLeft' = << >>
         /\ fixCount' = 0
         /\ UNCHANGED <<cfgVars, cycle, currentPrompt, genRequest, results, connected,
                        cycleVars, attempt>>

\* lines 147-155: what executeBuildCycle returns when deploy is still failed
DeployStillFailed(res) == [success |-> TRUE, results |-> res]

\* a variant that goes on to the next phase with the phase still failed
StillFailed_GoesOn(res, st) == Advance(res, st)

\* a variant that starts the next pass at the phase that failed
StillFailed_RetriesPhase(res, st) ==
    IF phase = "deploy"
    THEN AfterBuild(DeployStillFailed(res), st)
    ELSE IF attempt = maxAttempts
    THEN AfterBuild([success |-> FALSE, results |-> res,
                     finalError |-> <<PhaseTitle(phase), " phase failed after all attempts">>], st)
    ELSE /\ pc' = "run"
         /\ phase' = phase
         /\ attempt' = attempt + 1
         /\ pipeResults' = res
         /\ stamp' = st
         /\ fixLeft' = << >>
         /\ fixCount' = 0
         /\ UNCHANGED <<cfgVars, cycle, currentPrompt, genRequest, results, connected, cycleVars>>

\* a variant that names Build whichever phase failed
StillFailed_NamesBuild(res, st) ==
    IF phase = "deploy"
    THEN AfterBuild(DeployStillFailed(res), st)
    ELSE IF attempt = maxAttempts
    THEN AfterBuild([success |-> FALSE, results |-> res,
                     finalError |-> <<"Build", " phase failed after all attempts">>], st)
    ELSE /\ pc' = "run"
         /\ phase' = "build"
         /\ attempt' = attempt + 1
         /\ pipeResults' = res
         /\ stamp' = st
         /\ fixLeft' = << >>
         /\ fixCount' = 0
         /\ UNCHANGED <<cfgVars, cycle, currentPrompt, genRequest, results, connected, cycleVars>>

\* a variant that starts the next pass without counting it
StillFailed_NotCounted(res, st) ==
    IF phase = "deploy"
    THEN AfterBuild(DeployStillFailed(res), st)
    ELSE /\ pc' = "run"
         /\ phase' = "build"
         /\ attempt' = attempt
         /\ pipeResults' = res
         /\ stamp' = st
         /\ fixLeft' = << >>
         /\ fixCount' = 0
         /\ UNCHANGED <<cfgVars, cycle, currentPrompt, genRequest, results, connected, cycleVars>>

\* a phase is still failed after its remedy step: lines 96-101, 113-118, 130-135, 147-151
StillFailed(res, st) ==
    IF phase = "deploy"
    THEN AfterBuild(DeployStillFailed(res), st)
    ELSE IF attempt = maxAttempts
    THEN AfterBuild([success |-> FALSE, results |-> res,
                     finalError |-> <<PhaseTitle(phase), " phase failed after all attempts">>], st)
    ELSE /\ pc' = "run"
         /\ phase' = "build"
         /\ attempt' = attempt + 1
         /\ pipeResults' = res
         /\ stamp' = st
         /\ fixLeft' = << >>
         /\ fixCount' = 0
         /\ UNCHANGED <<cfgVars, cycle, currentPrompt, genRequest, results, connected, cycleVars>>

\* results.<phase> = await executeCommand('npm', ['run', phase]), then the classifier
LocalRun ==
    /\ pc = "run"
    /\ \E raw \in LocalOutcomes :
          LET r   == executeCommand(raw)
              res == Put(pipeResults, phase, r)
              st  == [stamp EXCEPT ![phase] = attempt]
          IN  /\ lastCmd' = Command("run", phase, PhaseCommand(phase), attempt, raw, r.success)
              /\ fixResult' = IF ~r.success /\ attemptFix(phase, r) = << >>
                               THEN StaticFixResult(phase, r)
                               ELSE NoFixResult
              /\ UNCHANGED <<download, cliVars, callVars>>
              /\ IF r.success
                 THEN Advance(res, st)
                 ELSE IF attemptFix(phase, r) # << >>
                 THEN /\ pc' = "fix"
                      /\ fixLeft' = attemptFix(phase, r)
                      /\ pipeResults' = res
                      /\ stamp' = st
                      /\ UNCHANGED <<cfgVars, cycle, currentPrompt, genRequest, results, connected,
                                     cycleVars, phase, attempt, fixCount>>
                 ELSE StillFailed(res, st)

\* a variant that re-runs the phase whatever the remedy gave
RerunAfter_Always(result) == TRUE

\* `if (fixResult.success)`: the phase command is re-run after a successful remedy
RerunAfter(result) == result.success

\* the remedy command of attempt*Fix ends: the next one (go mod download), the re-run,
\* or the phase stays failed
LocalFix ==
    /\ pc = "fix"
    /\ \E raw \in LocalOutcomes :
          LET result == executeCommand(raw) IN
          /\ lastCmd' = Command("fix", phase, Head(fixLeft), attempt, raw, result.success)
          /\ fixResult' = IF result.success /\ Len(fixLeft) > 1 THEN NoFixResult ELSE result
          /\ UNCHANGED <<download, cliVars, callVars>>
          /\ IF result.success /\ Len(fixLeft) > 1
             THEN /\ pc' = "fix"
                  /\ fixLeft' = Tail(fixLeft)
                  /\ fixCount' = fixCount + 1
                  /\ UNCHANGED <<cfgVars, cycle, currentPrompt, genRequest, results, connected,
                                 cycleVars, phase, attempt, pipeResults, stamp>>
             ELSE IF RerunAfter(result)
             THEN /\ pc' = "rerun"
                  /\ fixLeft' = << >>
                  /\ fixCount' = fixCount + 1
                  /\ UNCHANGED <<cfgVars, cycle, currentPrompt, genRequest, results, connected,
                                 cycleVars, phase, attempt, pipeResults, stamp>>
             ELSE StillFailed(pipeResults, stamp)

\* the re-run of the phase command after a successful remedy
LocalRerun ==
    /\ pc = "rerun"
    /\ \E raw \in LocalOutcomes :
          LET r   == executeCommand(raw)
              res == Put(pipeResults, phase, r)
              st  == [stamp EXCEPT ![phase] = attempt]
          IN  /\ lastCmd' = Command("rerun", phase, PhaseCommand(phase), attempt, raw, r.success)
              /\ UNCHANGED <<fixResult, download, cliVars, callVars>>
              /\ IF r.success THEN Advance(res, st) ELSE StillFailed(res, st)

-----------------------------------------------------------------------------
(* MCPServer.executeRemoteBuildCycle, downloadDeploymentOutputs, disconnect *)

\* one phase command of the remote pipeline: a transport failure is caught by the
\* pipeline's catch, a non-zero code returns, otherwise the next phase
RemoteRun ==
    /\ pc = "remote"
    /\ \E raw \in RemoteOutcomes :
          /\ lastCmd' = Command("run", phase, PhaseCommand(phase), attempt, raw,
                                raw.kind # "throw" /\ RemotePhaseOk(executeRemoteCommand(raw)))
          /\ UNCHANGED <<fixResult, download, cliVars, callVars>>
          /\ IF raw.kind = "throw"
             THEN AfterBuild([success |-> FALSE, results |-> NoResults, error |-> raw.stderr], stamp)
             ELSE LET r   == executeRemoteCommand(raw)
                      res == Put(pipeResults, phase, r)
                  IN  IF ~RemotePhaseOk(r)
                      THEN AfterBuild([success |-> FALSE, results |-> res,
                                       error |-> <<"Remote ", phase, " failed">>], stamp)
                      ELSE IF phase = "deploy"
                      THEN AfterBuild([success |-> TRUE, results |-> res], stamp)
                      ELSE /\ phase' = NextPhase(phase)
                           /\ pipeResults' = res
                           /\ stamp' = [stamp EXCEPT ![phase] = attempt]
                           /\ UNCHANGED <<cfgVars, agentVars, cycleVars, attempt, fixLeft, fixCount>>

\* a variant that returns what was found on the target whether or not a command threw
downloadDeploymentOutputs_KeepsFound(found, threw) == found

\* MCPServer.downloadDeploymentOutputs: the mapping of what the probes found on the
\* target, or {} from the catch block when one of its remote commands threw
downloadDeploymentOutputs(found, threw) == IF threw THEN NoOutputs ELSE found

\* lines 123-144 in remote mode: the outputs are downloaded, the cycle is marked
\* successful and the expectation check decides
Outputs ==
    /\ pc = "outputs"
    /\ UNCHANGED <<lastCmd, fixResult, cliVars, callVars>>
    /\ \E found \in envOutputs, threw \in BOOLEAN :
          /\ download' = [called |-> TRUE, threw |-> threw]
          /\ Succeed(buildResult, downloadDeploymentOutputs(found, threw))

\* lines 157-160 and MCPServer.disconnect
Cleanup ==
    /\ pc = "cleanup"
    /\ pc' = "done"
    /\ connected' = IF executionMode = "remote" /\ hasMcpConfig THEN FALSE ELSE connected
    /\ UNCHANGED <<cfgVars, cycle, currentPrompt, genRequest, results, cycleVars, pipeVars>>
    /\ UNCHANGED <<histVars, cliVars, callVars>>

Next ==
    \/ GenerateCommand \/ Exit
    \/ Begin \/ Connect \/ Setup \/ Generate \/ Generated \/ Deliver \/ DeliverNowhere
    \/ LocalRun \/ LocalFix \/ LocalRerun \/ RemoteRun \/ Outputs \/ Cleanup

Spec == Init /\ [][Next]_vars

\* the generate command run with the default configuration
SpecDefault == InitDefault /\ [][Next]_vars

\* a direct call of executeBuildCycle(maxAttempts)
NextPipeline == LocalRun \/ LocalFix \/ LocalRerun

SpecPipeline == InitPipeline /\ [][NextPipeline]_vars

-----------------------------------------------------------------------------
(* Functions called on their own *)

\* prompts, output keys and output values of a call of checkDeploymentExpectations
CallPrompts == {InitialPrompt, << [kind |-> "request", text |-> <<"create a queue">>] >>}
CallKeys == OutputFiles \cup { <<"bucketName">> }
CallValues == { <<"content">>, <<"my-app-storage">> }

\* the calls: outputs is undefined (present is FALSE) or a mapping
ExpectationCalls ==
    { [fn |-> "checkDeploymentExpectations", prompt |-> p, present |-> TRUE,
       outputs |-> [k \in keys |-> v]] :
         p \in CallPrompts, keys \in SUBSET CallKeys, v \in CallValues }
    \cup
    { [fn |-> "checkDeploymentExpectations", prompt |-> p, present |-> FALSE,
       outputs |-> NoOutputs] : p \in CallPrompts }

\* the contents a file of a validated file set may have, by path
CallContents(path) ==
    IF path = "cdk.json" THEN {EmptyContent, JsonText, BrokenJson, NotAString}
    ELSE {EmptyContent, GoSource, NoPackage}

\* the file sets validateGeneratedCode is called with: any keys, any of these contents
CallFileSets ==
    UNION { { fs \in [keys -> {EmptyContent, GoSource, NoPackage, JsonText, BrokenJson, NotAString}] :
                \A path \in keys : fs[path] \in CallContents(path) } :
            keys \in SUBSET {AllPaths[i] : i \in DOMAIN AllPaths} }

ValidationCalls == { [fn |-> "validateGeneratedCode", files |-> fs] : fs \in CallFileSets }

InitPure ==
    /\ entry = "call"
    /\ executionMode = "local"
    /\ hasMcpConfig = FALSE
    /\ maxCycles = 1
    /\ maxAttempts = DefaultMaxAttempts
    /\ envFailures = {}
    /\ envFileSets = {}
    /\ envOutputs = {}
    /\ hasApiKey = TRUE
    /\ pc = "call"
    /\ cycle = 0
    /\ attempt = 0
    /\ InitCommon
    /\ call \in ExpectationCalls \cup ValidationCalls

\* checkDeploymentExpectations(prompt, outputs): `!deploymentOutputs` first, then the keys
CallExpectations ==
    /\ pc = "call"
    /\ call.fn = "checkDeploymentExpectations"
    /\ pc' = "returned"
    /\ ret' = IF ~call.present THEN FALSE
              ELSE checkDeploymentExpectations(call.prompt, call.outputs)
    /\ UNCHANGED <<cfgVars, cycle, currentPrompt, genRequest, results, connected,
                   cycleVars, pipeVars, histVars, cliVars, call>>

\* validateGeneratedCode(files)
CallValidation ==
    /\ pc = "call"
    /\ call.fn = "validateGeneratedCode"
    /\ pc' = "returned"
    /\ ret' = validateGeneratedCode(call.files)
    /\ UNCHANGED <<cfgVars, cycle, currentPrompt, genRequest, results, connected,
                   cycleVars, pipeVars, histVars, cliVars, call>>

NextPure == CallExpectations \/ CallValidation

SpecPure == InitPure /\ [][NextPure]_vars

-----------------------------------------------------------------------------
(* Properties *)

\* the outcome recorded for a phase is a success
Succeeded(r) == IF "success" \in DOMAIN r THEN r.success ELSE r.code = 0

\* stdout followed by stderr, as captured for a phase
CombinedOutput(r) == IF "output" \in DOMAIN r THEN r.output ELSE r.stdout \o r.stderr

\* text holds sub as a run of consecutive tokens
ContainsText(text, sub) ==
    \E i \in 0..(Len(text) - Len(sub)) : SubSeq(text, i + 1, i + Len(sub)) = sub

\* the keys of a mapping name a deployed artifact in the sense of the expectation check
NamesArtifact(outputs) ==
    \E key \in DOMAIN outputs :
        includes(key, "output") \/ includes(key, "stack") \/ includes(key, "cfn")

\* the for loop of executeAgentCycle has been left
LoopLeft == pc \in {"cleanup", "done"} \/ (pc = "exited" /\ cycle >= 1)

\* C1: in the local and in the remote pipeline, whenever the command of a phase is
\* about to run (first run, remedy or re-run), every earlier phase has an outcome
\* recorded in this same pass and that outcome is a success.
C1_PhaseOrdering ==
    InPipeline =>
        \A q \in PhaseSet :
            PhaseIndex(q) < PhaseIndex(phase) =>
                /\ q \in DOMAIN pipeResults
                /\ stamp[q] = attempt
                /\ Succeeded(pipeResults[q])

\* C1 witness: the local pipeline is about to run deploy in its second pass
C1_Witness == pc = "run" /\ phase = "deploy" /\ attempt = 2 /\ executionMode = "local"

\* C2 as stated: at most maxCycles records, and once a record has success = true it is the last
C2_Original ==
    /\ Len(results) <= maxCycles
    /\ \A i \in DOMAIN results : results[i].success => i = Len(results)

\* C2 amended: at most maxCycles records, numbered 1, 2, ...; a cycle whose expectation
\* check returned true is the last one and the loop is left after it; a cycle recorded
\* success = true whose expectations were not met does not end the run while cycles remain.
C2_RecordsBounded ==
    /\ Len(results) <= maxCycles
    /\ \A i \in DOMAIN results :
          /\ results[i].cycle = i
          /\ (results[i].success /\ NamesArtifact(results[i].outputs))
                => (i = Len(results) /\ LoopLeft)
          /\ (LoopLeft /\ i = Len(results) /\ i < maxCycles)
                => (results[i].success /\ NamesArtifact(results[i].outputs))

\* C2 witness: a run of two permitted cycles that ended after its first, successful cycle
C2_Witness ==
    pc = "done" /\ maxCycles = 2 /\ Len(results) = 1 /\ results[1].success

\* the mapping {bucketName: ...}
BucketOutputs == OutputsOf({<<"bucketName">>})

UnmetCycle(i) ==
    /\ i \in DOMAIN results
    /\ results[i].build = "ok"
    /\ ~NamesArtifact(results[i].outputs)

\* C4 as stated: with maxCycles = 2 and two deployed cycles whose expectations were
\* not met, no record is marked successful
C4_Original ==
    (maxCycles = 2 /\ UnmetCycle(1) /\ UnmetCycle(2)) =>
        (~results[1].success /\ ~results[2].success)

\* C4 amended: with maxCycles = 2, a first cycle whose pipeline returned success and
\* whose expectations were not met is recorded success = true and does not end the run:
\* cycle 2 is generated from the initial prompt followed by the improvement block
\* holding cycle 1's outputs; if cycle 2 goes the same way it is recorded success = true
\* too and the run ends with exactly 2 records.
C4_UnmetExpectations ==
    (maxCycles = 2 /\ UnmetCycle(1)) =>
        /\ results[1].success
        /\ LoopLeft => Len(results) = 2
        /\ genRequest.context = CycleNotice(2) =>
              genRequest.prompt =
                  InitialPrompt \o << [kind |-> "improve", outputs |-> results[1].outputs] >>
        /\ UnmetCycle(2) => (results[2].success /\ LoopLeft /\ Len(results) = 2)

\* C4 witness: such a run has ended, both cycles with empty outputs
C4_Witness ==
    /\ pc = "done" /\ maxCycles = 2 /\ UnmetCycle(1) /\ UnmetCycle(2)
    /\ results[1].outputs = NoOutputs /\ results[2].outputs = NoOutputs

\* C5 as stated: a pipeline result with success = true has a successful last deploy
\* outcome, and a cycle is marked successful only with a successful deploy
C5_DeployNeverMasked ==
    /\ (buildResult # Unassigned /\ buildResult # UndefinedBuild /\ buildResult.success)
          => DeployOutcome(buildResult) = "ok"
    /\ \A i \in DOMAIN results : results[i].success => results[i].deploy = "ok"

\* C6 as stated: no execution of executeAgentCycle ends with the session connected
C6_SessionReleased == pc \in {"done", "thrown"} => ~connected

\* C7: a direct call executeBuildCycle(maxAttempts) never runs more than maxAttempts
\* passes; it returns success = false only in pass maxAttempts, with finalError naming
\* the phase (build, synth or lint) whose outcome of that pass is a failure; and it
\* returns success = true only when build, synth and lint succeeded in the last pass.
C7_ExhaustedAttempts ==
    /\ attempt \in 1..maxAttempts
    /\ (pc = "returned" /\ ~buildResult.success) =>
          /\ attempt = maxAttempts
          /\ phase \in {"build", "synth", "lint"}
          /\ buildResult.finalError = <<PhaseTitle(phase), " phase failed after all attempts">>
          /\ stamp[phase] = attempt
          /\ ~buildResult.results[phase].success
    /\ (pc = "returned" /\ buildResult.success) =>
          \A q \in {"build", "synth", "lint"} :
              stamp[q] = attempt /\ buildResult.results[q].success

\* C7 witness: build failed with an unresolved-module error in the third of 3 passes
C7_Witness ==
    /\ pc = "returned" /\ maxAttempts = 3 /\ attempt = 3 /\ ~buildResult.success
    /\ phase = "build"
    /\ includes(buildResult.results["build"].output, "Cannot find module")

\* C8 as stated: when cycle k's pipeline failed and cycle k+1 is about to be generated,
\* the prompt's last block lists, for every phase with a failed outcome, a text that
\* holds the phase's combined output
C8_FixPromptVerbatim ==
    (pc = "generate" /\ cycle >= 2 /\ results[cycle - 1].build = "failed") =>
        LET block == currentPrompt[Len(currentPrompt)] IN
        /\ block.kind = "fix"
        /\ \A p \in DOMAIN buildResult.results :
              ~Succeeded(buildResult.results[p]) =>
                  \E i \in DOMAIN block.entries :
                      /\ block.entries[i].phase = p
                      /\ ContainsText(block.entries[i].text,
                                      CombinedOutput(buildResult.results[p]))

\* C9: delivery and the pipeline only ever see a valid file set, and a cycle whose file
\* set validateGeneratedCode reports invalid is recorded with success = false, without
\* a build result and with no file delivered.
C9_InvalidNeverBuilt ==
    /\ ~validateGeneratedCode(NoEntryPoint).valid
    /\ (pc \in {"deliver", "outputs"} \/ InPipeline) => validateGeneratedCode(files).valid
    /\ \A i \in DOMAIN results :
          (results[i].generated /\ ~validateGeneratedCode(results[i].files).valid) =>
              /\ ~results[i].success
              /\ results[i].build = "none"
              /\ results[i].wrote = 0

\* C9 witness: a cycle whose file set lacks bin/tap.go has been recorded
C9_Witness ==
    \E i \in DOMAIN results : results[i].generated /\ results[i].files = NoEntryPoint

\* C10: a cycle whose generation failed is recorded with success = false and an error,
\* without a build result and with no file delivered, and the loop is not left at it
\* while cycles remain.
C10_GenerationFailureContinues ==
    \A i \in DOMAIN results :
        ~results[i].generated =>
            /\ ~results[i].success
            /\ results[i].error # << >>
            /\ results[i].build = "none"
            /\ results[i].wrote = 0
            /\ (i < maxCycles /\ i = Len(results)) => (~LoopLeft /\ cycle = i + 1)

\* C10 witness: generation failed in cycle 1 and the request of cycle 2 has been sent
C10_Witness ==
    /\ Len(results) = 1 /\ ~results[1].generated
    /\ cycle = 2 /\ pc = "generating"

\* the patterns the classifier of phase p looks for
ClassifierPatterns(p) ==
    CASE p = "build"  -> {"Cannot find module", "Module not found", "go.mod", "go.sum"}
      [] p = "synth"  -> {"cdktf get", ".gen"}
      [] p = "lint"   -> {"gofmt", "format"}
      [] p = "deploy" -> {"credentials", "access denied", "already exists", "conflict"}

\* the text the classifier reads of the last command's outcome
LastOutput == FixInput(executeCommand(lastCmd.raw))

\* the last command that ended is a failed first run of phase p in the local pipeline
FailedRun(p) ==
    /\ executionMode = "local"
    /\ lastCmd.role = "run" /\ lastCmd.phase = p /\ ~lastCmd.ok

\* C11: while a pipeline invoked by the agent is running or about to issue its first
\* phase command, every file of the cycle's validated file set has been delivered
C11_DeliveredBeforePipeline ==
    (entry = "executeAgentCycle" /\ InPipeline) =>
        /\ files # NoFiles
        /\ validateGeneratedCode(files).valid
        /\ written = Len(Entries(files))

\* C11 witness: the remote pipeline of cycle 2 is about to issue its first command with
\* the three files uploaded
C11_Witness ==
    /\ pc = "remote" /\ cycle = 2 /\ phase = "build" /\ lastCmd = NoCommand
    /\ written = 3

\* C12 as stated: every failed deploy whose output contains 'already exists' is
\* followed by the teardown command
C12_Original ==
    (FailedRun("deploy") /\ includes(LastOutput, "already exists")) =>
        (pc = "fix" /\ fixLeft = <<"npm run destroy">>)

\* C12: a failed deploy whose output contains 'already exists' and no credential signal
\* is followed by the teardown command; a successful teardown is followed by the
\* re-run of deploy; and a successful re-run makes the pipeline return success with
\* results.deploy holding the outcome of the re-run
C12_TeardownThenRerun ==
    /\ (FailedRun("deploy") /\ includes(LastOutput, "already exists")
          /\ ~includes(LastOutput, "credentials") /\ ~includes(LastOutput, "access denied")) =>
            (pc = "fix" /\ phase = "deploy" /\ fixLeft = <<"npm run destroy">>)
    /\ (lastCmd.role = "fix" /\ lastCmd.phase = "deploy") =>
            /\ lastCmd.cmd = "npm run destroy"
            /\ lastCmd.ok => (pc = "rerun" /\ phase = "deploy")
            /\ ~lastCmd.ok => pc = "returned"
    /\ (lastCmd.role = "rerun" /\ lastCmd.phase = "deploy" /\ lastCmd.ok) =>
            /\ pc = "returned"
            /\ buildResult.success
            /\ buildResult.results["deploy"] = executeCommand(lastCmd.raw)
            /\ buildResult.results["deploy"].success

\* C12 witness: the pipeline returned after teardown and a successful re-run of deploy
C12_Witness ==
    /\ pc = "returned" /\ buildResult.success
    /\ lastCmd.role = "rerun" /\ lastCmd.phase = "deploy" /\ lastCmd.ok
    /\ fixResult.success /\ fixCount = 1

\* C13: when the local pipeline's phase command failed with an output that matches no
\* pattern of the phase's classifier, the classifier returned 'No automatic fix
\* available', no remedy command was or will be run for it, and the recorded outcome of
\* the phase is untouched; this holds for every call, so also for a second call on the
\* same output in a later pass
C13_UnmatchedNoRemedy ==
    \A p \in PhaseSet :
        (FailedRun(p) /\ \A t \in ClassifierPatterns(p) : ~includes(LastOutput, t)) =>
            /\ fixResult = NoFixAvailable
            /\ pc # "fix" /\ pc # "rerun"
            /\ fixLeft = << >>
            /\ pipeResults[p] = executeCommand(lastCmd.raw)

\* C13 witness: the second pass ended on a lint failure that no pattern matches, as the
\* first pass did
C13_Witness ==
    /\ FailedRun("lint") /\ lastCmd.pass = 2 /\ attempt = 3
    /\ \A t \in ClassifierPatterns("lint") : ~includes(LastOutput, t)
    /\ fixResult = NoFixAvailable


\* the last pipeline command of the cycle just ended threw a transport failure
TransportFailed ==
    /\ pc \in {"generate", "cleanup"} /\ Len(results) > 0
    /\ lastCmd # NoCommand /\ lastCmd.raw.kind = "throw"

\* a block of the prompt holds the text msg
BlockHolds(block, msg) ==
    CASE block.kind = "recover" -> ContainsText(block.error, msg)
      [] block.kind = "fix"     -> \E i \in DOMAIN block.entries :
                                       ContainsText(block.entries[i].text, msg)
      [] block.kind = "request" -> ContainsText(block.text, msg)
      [] OTHER -> FALSE

\* C14 as stated: no exception of a cycle leaves executeAgentCycle; a cycle in which
\* delivery or a pipeline command threw is recorded with success = false and the error
\* message, and when a cycle follows, its prompt ends with the recovery block holding it
C14_ExceptionsCaught ==
    /\ cycle >= 1 => pc # "thrown"
    /\ \A i \in DOMAIN results :
          (/\ results[i].generated /\ validateGeneratedCode(results[i].files).valid
           /\ results[i].build = "none") =>
              ~results[i].success /\ results[i].error = <<"write failed">>
    /\ TransportFailed =>
          /\ ~results[Len(results)].success
          /\ ContainsText(results[Len(results)].error, lastCmd.raw.stderr)
          /\ pc = "generate" =>
                 /\ currentPrompt[Len(currentPrompt)].kind = "recover"
                 /\ BlockHolds(currentPrompt[Len(currentPrompt)], lastCmd.raw.stderr)

\* C15 as stated: after a transport failure of a remote phase command the pipeline
\* issues no further command, the cycle is recorded as failed with a build result that
\* differs from that of a non-zero exit, and the next cycle's prompt holds the error
C15_TransportFailureSurfaced ==
    /\ (lastCmd # NoCommand /\ lastCmd.raw.kind = "throw") => ~InPipeline
    /\ TransportFailed =>
          /\ ~results[Len(results)].success
          /\ buildResult.results = NoResults
          /\ buildResult.error = lastCmd.raw.stderr
          /\ \A p \in PhaseSet : buildResult.error # <<"Remote ", p, " failed">>
          /\ pc = "generate" =>
                 \E b \in DOMAIN currentPrompt : BlockHolds(currentPrompt[b], lastCmd.raw.stderr)

\* C16 as stated: after a phase command that ran to its end, either pipeline takes the
\* outcome for what executeCommand makes of it, and a failure for which the classifier
\* of the phase has a remedy is followed by that remedy
C16_UniformPipelines ==
    (lastCmd.role = "run" /\ lastCmd.raw.kind = "close") =>
        LET r == executeCommand(lastCmd.raw) IN
        /\ lastCmd.ok = r.success
        /\ (~r.success /\ attemptFix(lastCmd.phase, r) # << >>) =>
               (pc = "fix" /\ fixLeft = attemptFix(lastCmd.phase, r))

\* C17: once the generate command has exited, its status is 0 exactly when a returned
\* record has success = true, and 1 otherwise (missing key, exception, no success);
\* it exits only at those points
C17_ExitStatus ==
    /\ (pc = "exited") <=> (exitCode # NoExit)
    /\ exitCode # NoExit =>
          /\ exitCode \in {0, 1}
          /\ (exitCode = 0) <=> (\E i \in DOMAIN results : results[i].success)
          /\ (~hasApiKey \/ cycle = 0) => exitCode = 1

\* C17 witness: exit status 0 after a failed first and a successful second cycle
C17_Witness ==
    /\ exitCode = 0 /\ Len(results) = 2
    /\ ~results[1].success /\ results[2].success

\* C18 as stated: without a key no cycle begins, and with a key executeAgentCycle never
\* throws
C18_OnlyKeyIsFatal ==
    /\ ~hasApiKey => (cycle = 0 /\ results = << >> /\ pc \in {"cli", "exited"})
    /\ hasApiKey => pc # "thrown"

\* a key that names an artifact in the sense of the claim: stack, output or resource
\* identifier
ArtifactKey(key) ==
    includes(key, "output") \/ includes(key, "stack") \/ includes(key, "cfn")
    \/ key = <<"bucketName">>

C20_FailedRecordsCarryError ==
    \A i \in DOMAIN results : ~results[i].success => results[i].error # << >>

\* the last command left its phase failed: a failed run without remedy, a failed remedy
\* or a failed re-run
LeftFailed ==
    /\ executionMode = "local" /\ lastCmd # NoCommand /\ ~lastCmd.ok
    /\ lastCmd.role = "run" => attemptFix(lastCmd.phase, executeCommand(lastCmd.raw)) = << >>

\* C21: when build, synth or lint is left failed in a pass below maxAttempts, the
\* pipeline is at the build command of the next pass: no later phase ran in the failed
\* pass; and a pass never starts anywhere but at build
C21_RestartFromBuild ==
    /\ (InPipeline /\ LeftFailed /\ lastCmd.phase # "deploy" /\ lastCmd.pass < maxAttempts) =>
          /\ pc = "run" /\ phase = "build"
          /\ attempt = lastCmd.pass + 1
    /\ (InPipeline /\ executionMode = "local" /\ lastCmd # NoCommand
          /\ lastCmd.pass < attempt) => (pc = "run" /\ phase = "build" /\ LeftFailed)

\* C21 witness: pass 2 is about to start at build after lint stayed failed in pass 1
C21_Witness ==
    /\ pc = "run" /\ phase = "build" /\ attempt = 2
    /\ lastCmd # NoCommand /\ lastCmd.phase = "lint" /\ lastCmd.pass = 1 /\ ~lastCmd.ok

\* the pipeline command that has just ended in this step
Ended == lastCmd' # lastCmd /\ lastCmd' # NoCommand

\* C22: in the local pipeline a phase command is run once per pass and re-run at most
\* once; the re-run follows the remedy of the same phase and pass, exactly when the
\* first run failed and the remedy succeeded; nothing of the phase follows the re-run
\* in that pass; and a successful re-run is followed by the next phase of the same pass
C22_AtMostOneRerun ==
    /\ [](pc = "rerun" <=> (/\ executionMode = "local" /\ InPipeline
                             /\ lastCmd # NoCommand /\ lastCmd.role = "fix"
                             /\ fixResult # NoFixResult /\ fixResult.success))
    /\ []((executionMode = "local" /\ lastCmd # NoCommand /\ lastCmd.role = "rerun"
            /\ lastCmd.ok /\ lastCmd.phase # "deploy")
              => (pc = "run" /\ phase = NextPhase(lastCmd.phase) /\ attempt = lastCmd.pass))
    /\ [][(Ended /\ executionMode = "local") =>
            /\ lastCmd'.role = "rerun" =>
                  /\ lastCmd.role = "fix" /\ lastCmd.ok
                  /\ lastCmd'.phase = lastCmd.phase /\ lastCmd'.pass = lastCmd.pass
                  /\ ~pipeResults[phase].success
            /\ lastCmd'.role = "fix" =>
                  /\ lastCmd.role \in {"run", "fix"}
                  /\ lastCmd.role = "run" => ~lastCmd.ok
                  /\ lastCmd.role = "fix" => lastCmd.ok
                  /\ lastCmd'.phase = lastCmd.phase /\ lastCmd'.pass = lastCmd.pass
            /\ lastCmd'.role = "run" =>
                  \/ lastCmd = NoCommand
                  \/ lastCmd.pass < lastCmd'.pass
                  \/ (/\ lastCmd.pass = lastCmd'.pass /\ lastCmd.ok
                      /\ lastCmd.role \in {"run", "rerun"}
                      /\ lastCmd'.phase = NextPhase(lastCmd.phase))
          ]_vars

\* C22 witness: synth runs in pass 1 after a build that failed, was remedied and re-run
C22_Witness ==
    /\ pc = "run" /\ phase = "synth" /\ attempt = 1
    /\ lastCmd # NoCommand /\ lastCmd.role = "rerun" /\ lastCmd.phase = "build" /\ lastCmd.ok

\* C23 as stated: every outcome in the results executeBuildCycle returns was produced in
\* the last pass
C23_LastPassOnly ==
    (pc = "returned") => \A p \in DOMAIN buildResult.results : stamp[p] = attempt

\* C24 as stated: when a phase is re-run, exactly one remedy command was executed for it
C24_OneRemedyCommand ==
    (pc = "rerun") => fixCount = 1

\* C25: a failed deploy whose output holds 'credentials' or 'access denied' gets the
\* static credentials result: no remedy command and no re-run follow, whether or not
\* the output also holds 'already exists' or 'conflict'; the pipeline returns with the
\* outcome of that one run
C25_CredentialsFirst ==
    (FailedRun("deploy")
       /\ (includes(LastOutput, "credentials") \/ includes(LastOutput, "access denied"))) =>
        /\ fixResult = CredentialsNeeded
        /\ fixLeft = << >> /\ fixCount = 0
        /\ pc = "returned"
        /\ buildResult.results["deploy"] = executeCommand(lastCmd.raw)

\* C25 witness: the pipeline returned after a deploy whose output holds both signals
C25_Witness ==
    /\ pc = "returned" /\ FailedRun("deploy")
    /\ includes(LastOutput, "credentials") /\ includes(LastOutput, "already exists")
    /\ fixResult = CredentialsNeeded

\* C26 as stated: the remedy chosen for a failed phase is the one every phase's
\* classifier gives for that output
C26_RemedyByOutputAlone ==
    \A p \in PhaseSet :
        FailedRun(p) =>
            \A q \in PhaseSet :
                attemptFix(q, executeCommand(lastCmd.raw)) = attemptFix(p, executeCommand(lastCmd.raw))

\* C27 as stated: the prompt sent to the generation service is the initial prompt alone
\* or the initial prompt followed by one feedback block, that of the cycle before
C27_PromptFromOriginal ==
    (pc = "generating") =>
        /\ SubSeq(genRequest.prompt, 1, Len(InitialPrompt)) = InitialPrompt
        /\ Len(genRequest.prompt) <= Len(InitialPrompt) + 1

\* the record of the cycle before the current one is a generation or validation failure
FailedBeforePipeline(rec) ==
    /\ ~rec.success /\ rec.build = "none" /\ rec.error # << >>
    /\ rec.error[1] \in {"Code generation failed: ", "Generated code validation failed: "}

\* C28 as stated: the request of the cycle after a generation or validation failure
\* holds that failure's description, in its prompt (the context is a notice that holds
\* the cycle number only)
C28_FailureFedForward ==
    (pc = "generating" /\ cycle >= 2 /\ FailedBeforePipeline(results[cycle - 1])) =>
        /\ genRequest.context = CycleNotice(cycle)
        /\ \E b \in DOMAIN genRequest.prompt :
              BlockHolds(genRequest.prompt[b], results[cycle - 1].error)

\* C29 as stated: the fix block built after a failed pipeline has entries only for
\* phases whose recorded outcome is a failure
C29_OnlyFailedPhasesListed ==
    (pc = "generate" /\ cycle >= 2 /\ results[cycle - 1].build = "failed") =>
        LET block == currentPrompt[Len(currentPrompt)] IN
        /\ block.kind = "fix"
        /\ \A i \in DOMAIN block.entries :
              ~Succeeded(buildResult.results[block.entries[i].phase])

\* the run uses a remote session
UsesSession == executionMode = "remote" /\ hasMcpConfig

\* C30: with a remote session, connect and the bootstrap happen once each, in this
\* order, before the first cycle; generation, upload, the remote commands and the
\* collection of outputs happen while connected; the session is closed only by the
\* cleanup after the loop, and never opened again
C30_SessionProtocol ==
    /\ []((UsesSession /\ pc \in {"generate", "generating", "deliver", "remote", "outputs"})
            => connected)
    /\ [](connected => UsesSession)
    /\ [](pc \in {"connect", "setup"} =>
            (UsesSession /\ cycle = 0 /\ results = << >> /\ lastCmd = NoCommand /\ written = 0))
    /\ [](pc = "connect" => ~connected)
    /\ [][
           /\ (connected' # connected) =>
               /\ connected' => (pc = "connect" /\ pc' = "setup")
               /\ ~connected' => (pc = "cleanup" /\ pc' = "done" /\ LoopLeft)
           /\ (pc' = "connect" /\ pc # "connect") => pc = "begin"
           /\ (pc' = "begin" /\ pc # "begin") => pc = "cli"
           /\ (pc' = "setup" /\ pc # "setup") => (pc = "connect" /\ connected')
           /\ (pc = "setup" /\ pc' # "setup") =>
               (pc' = "thrown" \/ (pc' = "generate" /\ cycle' = 1))
           /\ (UsesSession /\ pc = "begin" /\ pc' # "begin") => pc' = "connect"
          ]_vars

\* C30 witness: the deploy command of cycle 2 is about to run on the session opened
\* before cycle 1
C30_Witness ==
    /\ UsesSession /\ connected /\ pc = "remote" /\ cycle = 2 /\ phase = "deploy"

\* a position inside an iteration of the for loop of executeAgentCycle
InCycle == pc \in {"generate", "generating", "deliver", "outputs"} \/ InPipeline

\* the external operations that a step issues or sees the result of
OperationsOfStep ==
    (IF genRequest' # genRequest THEN {"generation"} ELSE {})
    \cup (IF Ended THEN {"command"} ELSE {})
    \cup (IF written' > written THEN {"transfer"} ELSE {})
    \cup (IF connected' # connected THEN {"session"} ELSE {})
    \cup (IF download' # download /\ download'.called THEN {"download"} ELSE {})

MissingReported(errors, file) ==
    \E i \in DOMAIN errors : errors[i] = <<"Missing required file:", file>>

\* every .go file of fs has the package text, and cdk.json, when it is a key, parses
SourcesAndConfigFine(fs) ==
    /\ \A path \in DOMAIN fs : endsWithGo(path) => includes(fs[path], "package ")
    /\ "cdk.json" \in DOMAIN fs => JsonParses(fs["cdk.json"])

\* C32 as stated: valid is true exactly when the three required files are keys of the
\* file set, every .go file has a package declaration and cdk.json parses; a required
\* file is reported missing exactly when its key is absent
C32_Original ==
    (pc = "returned" /\ call.fn = "validateGeneratedCode") =>
        /\ ret.valid <=>
              (/\ {"lib/tap_stack.go", "bin/tap.go", "cdk.json"} \subseteq DOMAIN call.files
               /\ SourcesAndConfigFine(call.files))
        /\ \A file \in {"lib/tap_stack.go", "bin/tap.go", "cdk.json"} :
              MissingReported(ret.errors, file) <=> file \notin DOMAIN call.files

\* C32 amended: valid is true exactly when the three required files are keys of the file
\* set, every .go file has a package declaration and cdk.json parses; presence is decided
\* by the truthiness of the content: a required file is reported missing exactly when its
\* key is absent or its content is empty, and an empty cdk.json is reported missing
\* and not as invalid JSON
C32_Validation ==
    (pc = "returned" /\ call.fn = "validateGeneratedCode") =>
        /\ ret.valid <=>
              (/\ {"lib/tap_stack.go", "bin/tap.go", "cdk.json"} \subseteq DOMAIN call.files
               /\ SourcesAndConfigFine(call.files))
        /\ ret.valid <=> ret.errors = << >>
        /\ \A file \in {"lib/tap_stack.go", "bin/tap.go", "cdk.json"} :
              MissingReported(ret.errors, file) <=>
                  (file \notin DOMAIN call.files \/ call.files[file] = << >>)
        /\ ("cdk.json" \in DOMAIN call.files /\ call.files["cdk.json"] = << >>) =>
              \A i \in DOMAIN ret.errors : ret.errors[i] # <<"cdk.json: Invalid JSON format">>

\* C32 witness: the validation returned for a file set whose cdk.json is present and empty
C32_Witness ==
    /\ pc = "returned" /\ call.fn = "validateGeneratedCode"
    /\ DOMAIN call.files = {"lib/tap_stack.go", "bin/tap.go", "cdk.json"}
    /\ call.files["cdk.json"] = << >> /\ call.files["bin/tap.go"] = GoSource
    /\ ~ret.valid

\* C33 as stated: after the delivery step of a cycle either every file of the validated
\* file set is on the target or none is
C33_AllOrNothing ==
    /\ InPipeline => written = Len(Entries(files))
    /\ \A i \in DOMAIN results :
          results[i].wrote = 0 \/ results[i].wrote = Len(Entries(results[i].files))

\* the most steps one phase of a pass takes: its command, two remedy commands, its re-run
PhaseSteps == 1 + 2 + 1

\* the most steps one pass takes, and one cycle: generation request and answer, delivery,
\* every pass of the pipeline, the download
PassSteps == PhaseSteps * Len(Phases)
CycleSteps == PassSteps * maxAttempts + 4

\* the steps the pipeline can still take from its position
PipelineStepsLeft ==
    (maxAttempts - attempt) * PassSteps
    + (Len(Phases) - PhaseIndex(phase)) * PhaseSteps
    + (CASE pc = "fix" -> 1 + Len(fixLeft) [] pc = "rerun" -> 1 [] OTHER -> PhaseSteps)

\* the steps the current cycle can still take from its position
CycleStepsLeft ==
    CASE pc = "generate"   -> CycleSteps
      [] pc = "generating" -> CycleSteps - 1
      [] pc = "deliver"    -> CycleSteps - 2
      [] InPipeline        -> 1 + PipelineStepsLeft
      [] pc = "outputs"    -> 1

\* the steps a run of the generate command can still take from its position
StepsLeft ==
    CASE pc = "cli"     -> 7 + maxCycles * CycleSteps
      [] pc = "begin"   -> 6 + maxCycles * CycleSteps
      [] pc = "connect" -> 5 + maxCycles * CycleSteps
      [] pc = "setup"   -> 4 + maxCycles * CycleSteps
      [] InCycle        -> 3 + (maxCycles - cycle) * CycleSteps + CycleStepsLeft
      [] pc = "cleanup" -> 2
      [] pc \in {"done", "thrown"} -> 1
      [] pc = "exited"  -> 0

\* C34: the run never enters a cycle beyond maxCycles nor a pass beyond maxAttempts, it
\* records at most maxCycles cycles, and every step (hence every phase or remedy command)
\* lowers a measure that starts at 7 + maxCycles * (16 * maxAttempts + 4) and is never
\* negative, whatever the outcomes: the run ends after at most that many steps
C34_BoundedIteration ==
    /\ [](/\ cycle <= maxCycles /\ attempt <= maxAttempts /\ Len(results) <= maxCycles
          /\ StepsLeft >= 0
          /\ StepsLeft <= 7 + maxCycles * (16 * maxAttempts + 4))
    /\ [][StepsLeft' < StepsLeft]_vars

\* C34 witness: the last permitted pass of the last permitted cycle ended with lint failed
C34_Witness ==
    /\ pc = "done" /\ maxCycles = 2 /\ Len(results) = 2 /\ attempt = maxAttempts
    /\ lastCmd # NoCommand /\ lastCmd.phase = "lint" /\ ~lastCmd.ok
    /\ ~results[2].success

\* C35: in local mode every recorded cycle has the empty mapping for outputs, the
\* expectation check on them is false, the loop is left only after cycle maxCycles, and
\* the run returns exactly maxCycles records, successful cycles included
C35_LocalNeverStopsEarly ==
    (executionMode = "local" /\ entry = "executeAgentCycle") =>
        /\ deploymentOutputs = NoOutputs
        /\ \A i \in DOMAIN results :
              /\ results[i].outputs = NoOutputs
              /\ ~checkDeploymentExpectations(InitialPrompt, results[i].outputs)
        /\ pc # "thrown"
        /\ LoopLeft => (cycle = maxCycles /\ Len(results) = maxCycles)

\* C35 witness: a local run of two cycles has returned two records, the first of
\* them for a cycle that deployed successfully
C35_Witness ==
    /\ executionMode = "local" /\ pc = "done" /\ maxCycles = 2 /\ Len(results) = 2
    /\ results[1].success /\ results[1].deploy = "ok"

\* C36 as stated: every result of the local executeCommand has success = true exactly
\* when its exitCode is 0, also for a child that ended without an exit code
C36_SuccessIffExitZero ==
    /\ (lastCmd # NoCommand /\ executionMode = "local") =>
          (executeCommand(lastCmd.raw).success <=> executeCommand(lastCmd.raw).exitCode = 0)
    /\ executionMode = "local" =>
          \A p \in DOMAIN pipeResults : pipeResults[p].success <=> pipeResults[p].exitCode = 0

\* C37 as stated: a remote phase command that ended without an exit code is not taken
\* for a success and the next phase does not run after it
C37_NullCodeNotSuccess ==
    (/\ executionMode = "remote" /\ lastCmd # NoCommand
     /\ lastCmd.raw.kind = "close" /\ lastCmd.raw.code = NullCode) =>
        /\ ~lastCmd.ok
        /\ ~(pc = "remote" /\ phase = NextPhase(lastCmd.phase))
        /\ (buildResult # Unassigned /\ buildResult # UndefinedBuild) => ~buildResult.success

\* C38: in remote mode without a server configuration the session is never opened, no
\* file is delivered, no command is issued and nothing is downloaded; a cycle whose file
\* set was valid is recorded with success = false and an undefined build result; and the
\* run returns maxCycles records, none of them successful
C38_RemoteWithoutServer ==
    (executionMode = "remote" /\ ~hasMcpConfig) =>
        /\ ~connected /\ pc \notin {"connect", "setup", "outputs", "thrown"} /\ ~InPipeline
        /\ written = 0 /\ lastCmd = NoCommand /\ download = NoDownload
        /\ \A i \in DOMAIN results :
              /\ ~results[i].success /\ results[i].wrote = 0
              /\ (results[i].generated /\ validateGeneratedCode(results[i].files).valid)
                    => results[i].build = "undefined"
        /\ LoopLeft => Len(results) = maxCycles
        /\ exitCode \in {NoExit, 1}

\* C38 witness: such a run of two cycles has returned, both file sets having been valid
C38_Witness ==
    /\ executionMode = "remote" /\ ~hasMcpConfig /\ pc = "done" /\ Len(results) = 2
    /\ results[1].build = "undefined" /\ results[2].build = "undefined"

\* C39: the request sent to the generation service has a prompt and a context and nothing
\* else; the context is the caller's in cycle 1 and, in every later cycle, the notice that
\* names that cycle, whatever the earlier cycles recorded; the prompt is currentPrompt
C39_ContextOnlyInCycleOne ==
    pc = "generating" =>
        /\ DOMAIN genRequest = {"prompt", "context"}
        /\ genRequest.prompt = currentPrompt
        /\ cycle = 1 => genRequest.context = [kind |-> "request", cycle |-> 0]
        /\ cycle > 1 => genRequest.context = [kind |-> "notice", cycle |-> cycle]

\* C39 witness: the request of cycle 2 is in flight, with feedback of cycle 1 in its prompt
C39_Witness ==
    /\ pc = "generating" /\ cycle = 2 /\ Len(genRequest.prompt) = 2
    /\ genRequest.prompt[2].kind = "fix"

\* C40: when a command of downloadDeploymentOutputs threw, nothing is thrown into the
\* cycle; the outputs are the empty mapping whatever the target holds; the cycle is
\* recorded with success = true; the expectation check on them is false; and the next
\* cycle starts, with the improvement prompt, if one remains
C40_DownloadFailureSwallowed ==
    download.threw =>
        LET rec == results[Len(results)] IN
        /\ pc # "thrown"
        /\ deploymentOutputs = NoOutputs
        /\ rec.success /\ rec.outputs = NoOutputs /\ rec.error = << >>
        /\ ~checkDeploymentExpectations(InitialPrompt, rec.outputs)
        /\ rec.cycle < maxCycles =>
              /\ pc = "generate" /\ cycle = rec.cycle + 1
              /\ currentPrompt[Len(currentPrompt)] = [kind |-> "improve", outputs |-> NoOutputs]
        /\ rec.cycle = maxCycles => LoopLeft

\* C40 witness: cycle 2 is about to start after the download of cycle 1 threw
C40_Witness ==
    /\ download.threw /\ pc = "generate" /\ cycle = 2
    /\ results[1].success /\ results[1].deploy = "ok"
====
